---- MODULE Spec2Model ----
(***************************************************************************)
(* Model of src/scraper.py: the OLX search-result scraper.                 *)
(*                                                                         *)
(* Two specifications are given.                                           *)
(*   Spec         the run of main(): scrape() (browser session, goto,      *)
(*                quiescence waits, scroll loop, extraction, close,        *)
(*                truncation) followed by save_results().                  *)
(*   SpecExtract  extract_listings_from_page() alone, as a pure function   *)
(*                of the anchors the page holds.                           *)
(*                                                                         *)
(* Strings the code inspects (href, text) are sequences of one-character   *)
(* strings, so that `in`, strip() and splitlines() are computed.           *)
(***************************************************************************)
EXTENDS Integers, Sequences, FiniteSets, TLC

VARIABLES
    pc,               \* position of the program
    max_items,        \* args.max_items, the argument of scrape
    pw,               \* the sync_playwright() scope: "none", "running", "stopped"
    browser,          \* the browser session: "none", "open", "closed"
    releases,         \* history: how often the browser session went open -> closed
    pwStops,          \* history: how often the sync_playwright scope was exited
    raising,          \* an exception is propagating out of scrape / main
    fatal,            \* history: where the environment raised an error the code has no handler for
    gotoCalls,        \* history: calls of page.goto
    docHeight,        \* document.body.scrollHeight of the page (environment)
    previous_height,  \* local of scrape
    current_height,   \* local of scrape
    iterations,       \* history: scroll-loop iterations started
    measurements,     \* history: evaluations of document.body.scrollHeight
    broke,            \* the scroll loop was left by its break
    stableAfter,      \* history: first k with height(k+1) = height(k), NoK before
    moved,            \* history: the height changed again after stableAfter was set
    sawTimeout,       \* history: a quiescence wait timed out
    extractCalls,     \* history: calls of extract_listings_from_page
    anchors,          \* local of extract_listings_from_page: page.query_selector_all("a[href]")
    items,            \* local of extract_listings_from_page
    lookups,          \* history: per appended item, how its price / location lookups went
    unique,           \* what extract_listings_from_page returned
    results,          \* local of scrape, then of main
    written,          \* save_results wrote the output file
    outfile           \* the records written

vars == <<pc, max_items, pw, browser, releases, pwStops, raising, fatal, gotoCalls,
          docHeight, previous_height, current_height, iterations, measurements,
          broke, stableAfter, moved, sawTimeout, extractCalls, anchors, items,
          lookups, unique, results, written, outfile>>

(***************************************************************************)
(* Bounds of the model.                                                    *)
(***************************************************************************)
MaxAnchors == 3     \* anchors on a page
MaxHeight == 2      \* document heights are 0..MaxHeight

(***************************************************************************)
(* Strings.                                                                *)
(***************************************************************************)
None == <<"<None>">>          \* Python's None where a string may stand
RUPEE == "<rupee>"            \* the one character U+20B9

Whitespace == {" ", "\n", "\t", "\r"}
LineBreaks == {"\n", "\r"}

Min(a, b) == IF a <= b THEN a ELSE b
Max(a, b) == IF a >= b THEN a ELSE b

\* sub in s
Contains(s, sub) ==
    \E i \in 1..(Len(s) - Len(sub) + 1) : SubSeq(s, i, i + Len(sub) - 1) = sub

\* the letters of "INR", folded for Playwright's case-insensitive :has-text
CaseFold(c) ==
    IF c = "i" THEN "I" ELSE IF c = "n" THEN "N" ELSE IF c = "r" THEN "R" ELSE c

Folded(s) == [i \in 1..Len(s) |-> CaseFold(s[i])]

\* s.strip()
Strip(s) ==
    LET keep == {i \in 1..Len(s) : s[i] \notin Whitespace}
    IN  IF keep = {} THEN <<>>
        ELSE LET lo == CHOOSE i \in keep : \A j \in keep : i <= j
                 hi == CHOOSE i \in keep : \A j \in keep : i >= j
             IN  SubSeq(s, lo, hi)

\* s.splitlines()[0], for s non-empty
FirstLine(s) ==
    LET brk == {i \in 1..Len(s) : s[i] \in LineBreaks}
    IN  IF brk = {} THEN s
        ELSE SubSeq(s, 1, (CHOOSE i \in brk : \A j \in brk : i <= j) - 1)

(***************************************************************************)
(* The page: elements and anchors.                                         *)
(***************************************************************************)
El(tag, classes, aut, text) ==
    [tag |-> tag, classes |-> classes, aut |-> aut, text |-> text]

NoEl == El("<none>", {}, "", <<>>)      \* query_selector returned None

\* el.query_selector(".c1, .c2, ..."): the first element, in document order,
\* that carries one of the classes
ByClass(els, classes) ==
    LET hit == {i \in 1..Len(els) : els[i].classes \cap classes # {}}
    IN  IF hit = {} THEN NoEl ELSE els[CHOOSE i \in hit : \A j \in hit : i <= j]

\* el.query_selector("span:has-text('...')")
SpanHasText(els, sub) ==
    LET hit == {i \in 1..Len(els) :
                  els[i].tag = "span" /\ Contains(Folded(els[i].text), Folded(sub))}
    IN  IF hit = {} THEN NoEl ELSE els[CHOOSE i \in hit : \A j \in hit : i <= j]

\* el.query_selector("span[data-aut-id='itemLocation']")
SpanItemLocation(els) ==
    LET hit == {i \in 1..Len(els) : els[i].tag = "span" /\ els[i].aut = "itemLocation"}
    IN  IF hit = {} THEN NoEl ELSE els[CHOOSE i \in hit : \A j \in hit : i <= j]

\* Python's `x or y` on element handles
OrEl(x, y) == IF x # NoEl THEN x ELSE y

PriceClasses == {"price", "_89yzn", "_2xKfz"}
LocationClasses == {"_2FBdJ", "tjgMj", "-K-F"}

\* An anchor of the page.
\*   href         a.get_attribute("href"): a string or None
\*   text         a.inner_text()
\*   broken       get_attribute / inner_text raises (detached or crashed page)
\*   kids         the elements inside the anchor
\*   priceRaises  the price lookup raises
\*   hasParent    el.closest('li, div') finds an ancestor
\*   pkids        the elements inside that ancestor
\*   locRaises    the location lookup raises
Anchor(href, text, broken, kids, priceRaises, hasParent, pkids, locRaises) ==
    [href |-> href, text |-> text, broken |-> broken, kids |-> kids,
     priceRaises |-> priceRaises, hasParent |-> hasParent, pkids |-> pkids,
     locRaises |-> locRaises]


(***************************************************************************)
(* The anchors a page is built from.                                       *)
(***************************************************************************)
hItem123 == <<"/", "i", "t", "e", "m", "/", "1", "2", "3">>
hOther999 == <<"/", "o", "t", "h", "e", "r", "/", "9", "9", "9">>
hI7 == <<"/", "i", "/", "7">>
hI8 == <<"/", "i", "/", "8">>
hItemsQ == <<"/", "i", "t", "e", "m", "s", "/", "q">>
hItem9 == <<"/", "i", "t", "e", "m", "/", "9">>

tCarCover == <<"C", "a", "r", " ", "C", "o", "v", "e", "r">>
tCarCover500 == tCarCover \o <<"\n", RUPEE, "5", "0", "0">>
tRupee500 == <<RUPEE, "5", "0", "0">>
tMat == <<"M", "a", "t">>
tPune == <<"P", "u", "n", "e">>
tGoa == <<"G", "o", "a">>

\* <a href="/item/123">Car Cover\n<span>R500</span></a>, no li/div around it
aItem ==
    Anchor(hItem123, tCarCover500, FALSE,
           <<El("span", {}, "", tRupee500)>>, FALSE, FALSE, <<>>, FALSE)
\* the same text without any element around the price
aItemBare ==
    Anchor(hItem123, tCarCover500, FALSE, <<>>, FALSE, FALSE, <<>>, FALSE)
\* a second anchor to the same item: padded text, a classed price, a location
aItemDup ==
    Anchor(hItem123, <<" ">> \o tMat \o <<" ", "\n">>, FALSE,
           <<El("div", {"x"}, "", tMat), El("span", {"_89yzn"}, "", <<" ", "9", " ">>)>>,
           FALSE, TRUE, <<El("span", {"_2FBdJ"}, "", tPune)>>, FALSE)
\* not an item link, no currency marker
aOther ==
    Anchor(hOther999, tMat, FALSE, <<>>, FALSE, FALSE, <<>>, FALSE)
\* href="" with title, price and location all there
aEmptyHref ==
    Anchor(<<>>, tCarCover, FALSE,
           <<El("span", {"price"}, "", tRupee500)>>, FALSE,
           TRUE, <<El("span", {"tjgMj"}, "", tGoa)>>, FALSE)
\* get_attribute("href") returns None
aNoHref ==
    Anchor(None, tCarCover500, FALSE,
           <<El("span", {}, "", tRupee500)>>, FALSE,
           TRUE, <<El("span", {}, "itemLocation", tPune)>>, FALSE)
\* the price lookup raises, the location is found by its data-aut-id
aPriceRaises ==
    Anchor(hI7, <<>>, FALSE, <<>>, TRUE,
           TRUE, <<El("span", {}, "itemLocation", tGoa \o <<" ">>)>>, FALSE)
\* both lookups raise
aBothRaise ==
    Anchor(hI7, tMat, FALSE, <<>>, TRUE, TRUE, <<>>, TRUE)
\* both lookups find nothing
aBothMiss ==
    Anchor(hI8, tMat \o <<"\r", "\n">> \o tGoa, FALSE,
           <<El("div", {"price2"}, "", tRupee500)>>, FALSE,
           TRUE, <<El("div", {}, "itemLocation", tGoa)>>, FALSE)
\* price by the lower-case currency code, no ancestor
aItemsInr ==
    Anchor(hItemsQ, tMat, FALSE,
           <<El("span", {}, "", <<"i", "n", "r", " ", "5">>)>>, FALSE,
           FALSE, <<>>, FALSE)
\* inner_text() raises on this anchor
aBroken ==
    Anchor(hItem9, tMat, TRUE, <<>>, FALSE, FALSE, <<>>, FALSE)

Anchors == {aItem, aItemBare, aItemDup, aOther, aEmptyHref, aNoHref,
            aPriceRaises, aBothRaise, aBothMiss, aItemsInr, aBroken}

SeqsUpTo(S, n) == UNION {[1..k -> S] : k \in 0..n}

Pages == SeqsUpTo(Anchors, MaxAnchors)

\* the anchors the pages of a whole run are built from: an item, a second anchor
\* to it, failing lookups, an empty href, an anchor that cannot be read
ScrapeAnchors == {aItem, aItemDup, aBothRaise, aBothMiss, aEmptyHref, aBroken}

ScrapePages == SeqsUpTo(ScrapeAnchors, MaxAnchors)

(***************************************************************************)
(* extract_listings_from_page, lines 41-82.                                *)
(***************************************************************************)
\* href = a.get_attribute("href") or ""
HrefOf(a) == IF a.href = None THEN <<>> ELSE a.href

\* text = a.inner_text().strip()
TextOf(a) == Strip(a.text)

\* the heuristic that accepts every anchor
Qualifies_All(href) == TRUE

\* `if not href: continue` and the item-link heuristic
Qualifies(href) ==
    /\ href # <<>>
    /\ \/ Contains(href, <<"/", "i", "t", "e", "m">>)
       \/ Contains(href, <<"/", "i", "/">>)
       \/ Contains(href, <<"/", "i", "t", "e", "m", "s", "/">>)

\* title = text.splitlines()[0] if text else None
TitleOf(text) == IF text # <<>> THEN FirstLine(text) ELSE None

\* the element the price is read from
PriceEl(a) ==
    OrEl(ByClass(a.kids, PriceClasses),
         OrEl(SpanHasText(a.kids, <<RUPEE>>),
              SpanHasText(a.kids, <<"I", "N", "R">>)))

\* how the first try block ends: "raised", "absent" or "found"
PriceOutcome(a) ==
    IF a.priceRaises THEN "raised"
    ELSE IF PriceEl(a) = NoEl THEN "absent" ELSE "found"

PriceOf(a) == IF PriceOutcome(a) = "found" THEN Strip(PriceEl(a).text) ELSE None

\* one try block around both lookups: a price error skips the location
LocationTried_OneTry(priceOutcome) == priceOutcome # "raised"

\* the price lookup has its own try/except: the second try block is always entered
LocationTried(priceOutcome) == TRUE

LocationEl(a) ==
    OrEl(ByClass(a.pkids, LocationClasses), SpanItemLocation(a.pkids))

\* how the second try block ends: "raised", "absent", "found", or "skipped"
LocationOutcome(a) ==
    IF ~LocationTried(PriceOutcome(a)) THEN "skipped"
    ELSE IF a.locRaises THEN "raised"
    ELSE IF ~a.hasParent THEN "absent"
    ELSE IF LocationEl(a) = NoEl THEN "absent" ELSE "found"

LocationOf(a) ==
    IF LocationOutcome(a) = "found" THEN Strip(LocationEl(a).text) ELSE None

\* the dict appended for a qualifying anchor
Candidate(a) ==
    [title |-> TitleOf(TextOf(a)), href |-> HrefOf(a),
     price |-> PriceOf(a), location |-> LocationOf(a)]

Lookup(a) == [price |-> PriceOutcome(a), location |-> LocationOutcome(a)]

\* the anchors the loop appends an item for
Qualifying(as) == SelectSeq(as, LAMBDA a : Qualifies(HrefOf(a)))

\* items after the for loop over the anchors
BuildItems(as) == [i \in 1..Len(Qualifying(as)) |-> Candidate(Qualifying(as)[i])]

BuildLookups(as) == [i \in 1..Len(Qualifying(as)) |-> Lookup(Qualifying(as)[i])]

\* get_attribute / inner_text raise on some anchor: the loop is left by the exception
ScanRaises(as) == \E i \in 1..Len(as) : as[i].broken

\* h = it.get("href") or ""
HrefKey(it) == IF it.href = None THEN <<>> ELSE it.href

RECURSIVE DedupFrom(_, _, _)
DedupFrom(its, seen, acc) ==
    IF its = <<>> THEN acc
    ELSE IF HrefKey(Head(its)) \in seen
         THEN DedupFrom(Tail(its), seen, acc)
         ELSE DedupFrom(Tail(its), seen \cup {HrefKey(Head(its))}, Append(acc, Head(its)))

\* a dedup that keeps the last item of each href
Unique_KeepLast(its) ==
    LET marked == [i \in 1..Len(its) |->
                      [it |-> its[i],
                       last |-> \A j \in (i + 1)..Len(its) : HrefKey(its[j]) # HrefKey(its[i])]]
        kept == SelectSeq(marked, LAMBDA r : r.last)
    IN  [i \in 1..Len(kept) |-> kept[i].it]

\* no dedup at all
Unique_NoDedup(its) == its

\* lines 75-82: the first item of each href, in order
Unique(its) == DedupFrom(its, {}, <<>>)

\* what extract_listings_from_page(page) returns for the anchors of the page
extract_listings_from_page(as) == Unique(BuildItems(as))

\* if len(results) > max_items: results = results[:max_items]
\* a slice that keeps the tail instead
Truncate_Tail(rs, n) ==
    IF Len(rs) > n THEN SubSeq(rs, Len(rs) - Max(0, Min(n, Len(rs))) + 1, Len(rs)) ELSE rs

\* rs[:n] is rs[:len(rs)+n] for a negative n
Truncate(rs, n) ==
    IF Len(rs) > n
    THEN SubSeq(rs, 1, IF n >= 0 THEN Min(n, Len(rs)) ELSE Max(0, Len(rs) + n))
    ELSE rs


(***************************************************************************)
(* scrape() and main(), lines 84-139.                                      *)
(***************************************************************************)
\* a loop of one iteration too many
MaxScrolls_Eleven == 10 + 1

MaxScrolls == 10          \* for _ in range(10)
DefaultMaxItems == 200    \* --max-items default
NoK == 0 - 1

\* --max-items takes any int
MaxItemsChoices == {0 - 1, 0, 1, 2, DefaultMaxItems}

Heights == 0..MaxHeight

Init ==
    /\ pc = "start"
    /\ max_items \in MaxItemsChoices
    /\ pw = "none"
    /\ browser = "none"
    /\ releases = 0
    /\ pwStops = 0
    /\ raising = FALSE
    /\ fatal = "none"
    /\ gotoCalls = 0
    /\ docHeight = 0
    /\ previous_height = 0
    /\ current_height = 0
    /\ iterations = 0
    /\ measurements = 0
    /\ broke = FALSE
    /\ stableAfter = NoK
    /\ moved = FALSE
    /\ sawTimeout = FALSE
    /\ extractCalls = 0
    /\ anchors = <<>>
    /\ items = <<>>
    /\ lookups = <<>>
    /\ unique = <<>>
    /\ results = <<>>
    /\ written = FALSE
    /\ outfile = <<>>

sessionVars == <<pw, browser, releases, pwStops>>
scrollVars == <<docHeight, previous_height, current_height, iterations, measurements,
                broke, stableAfter, moved>>
extractVars == <<extractCalls, anchors, items, lookups, unique>>
outVars == <<written, outfile>>

\* an exception leaves the `with` block: its __exit__ runs next
Raise(where) ==
    /\ raising' = TRUE
    /\ fatal' = where
    /\ pc' = "with_exit"

\* lines 86-89: with sync_playwright() as p, launch, new_context, new_page
Launch ==
    /\ pc = "start"
    /\ pw' = "running"
    /\ \/ /\ browser' = "open"
          /\ pc' = "goto"
          /\ UNCHANGED <<raising, fatal>>
       \/ /\ browser' = "none"           \* chromium.launch raises
          /\ Raise("launch")
       \/ /\ browser' = "open"           \* new_context / new_page raises
          /\ Raise("new_page")
    /\ UNCHANGED <<max_items, releases, pwStops, gotoCalls, scrollVars, sawTimeout,
                   extractVars, results, outVars>>

\* a goto whose failure is swallowed
Goto_Swallowed ==
    /\ pc = "goto"
    /\ gotoCalls' = gotoCalls + 1
    /\ \/ /\ \E h \in Heights : docHeight' = h
          /\ pc' = "wait_load"
          /\ UNCHANGED <<raising, fatal>>
       \/ /\ fatal' = "goto"
          /\ pc' = "wait_load"
          /\ UNCHANGED <<raising, docHeight>>
    /\ UNCHANGED <<max_items, sessionVars, previous_height, current_height, iterations,
                   measurements, broke, stableAfter, moved, sawTimeout, extractVars,
                   results, outVars>>

\* line 91: page.goto(url, timeout=30000), outside any try
Goto ==
    /\ pc = "goto"
    /\ gotoCalls' = gotoCalls + 1
    /\ \/ /\ \E h \in Heights : docHeight' = h
          /\ pc' = "wait_load"
          /\ UNCHANGED <<raising, fatal>>
       \/ /\ Raise("goto")               \* TimeoutError after 30 s, or a network error
          /\ UNCHANGED docHeight
    /\ UNCHANGED <<max_items, sessionVars, previous_height, current_height, iterations,
                   measurements, broke, stableAfter, moved, sawTimeout, extractVars,
                   results, outVars>>

WaitOutcomes == {"idle", "timeout", "error"}

\* a wait whose timeout is not handled
Caught_Nothing(outcome) == FALSE

\* except PlaywrightTimeoutError: pass
Caught(outcome) == outcome = "timeout"

\* page.wait_for_load_state("networkidle", timeout=...) inside try/except
Wait(where, next) ==
    \E outcome \in WaitOutcomes :
        /\ sawTimeout' = (sawTimeout \/ outcome = "timeout")
        /\ IF outcome = "idle" \/ Caught(outcome)
           THEN /\ pc' = next
                /\ UNCHANGED <<raising, fatal>>
           ELSE /\ raising' = TRUE
                /\ fatal' = IF outcome = "error" THEN where ELSE fatal
                /\ pc' = "with_exit"

\* lines 93-99: the first quiescence wait, the settle delay, previous_height = 0
WaitLoad ==
    /\ pc = "wait_load"
    /\ Wait("wait_load", "scroll")
    /\ previous_height' = 0
    /\ UNCHANGED <<max_items, sessionVars, gotoCalls, docHeight, current_height,
                   iterations, measurements, broke, stableAfter, moved, extractVars,
                   results, outVars>>

\* lines 100-102: one more iteration; scrolling makes the page load what it will
Scroll ==
    /\ pc = "scroll"
    /\ iterations < MaxScrolls
    /\ iterations' = iterations + 1
    /\ \/ /\ \E h \in Heights :
               /\ docHeight' = h
               /\ stableAfter' = IF stableAfter = NoK /\ h = docHeight
                                 THEN iterations ELSE stableAfter
               /\ moved' = (moved \/ (stableAfter # NoK /\ h # docHeight))
          /\ pc' = "wait_idle"
          /\ UNCHANGED <<raising, fatal>>
       \/ /\ Raise("scroll")             \* page.evaluate raises
          /\ UNCHANGED <<docHeight, stableAfter, moved>>
    /\ UNCHANGED <<max_items, sessionVars, gotoCalls, previous_height, current_height,
                   measurements, broke, sawTimeout, extractVars, results, outVars>>

\* lines 103-106
WaitIdle ==
    /\ pc = "wait_idle"
    /\ Wait("wait_idle", "measure")
    /\ UNCHANGED <<max_items, sessionVars, gotoCalls, scrollVars, extractVars,
                   results, outVars>>

\* a loop without the early exit
Converged_Never(current, previous) == FALSE

\* if current_height == previous_height: break
Converged(current, previous) == current = previous

\* lines 107-110
Measure ==
    /\ pc = "measure"
    /\ \/ /\ measurements' = measurements + 1
          /\ current_height' = docHeight
          /\ IF Converged(docHeight, previous_height)
             THEN /\ broke' = TRUE
                  /\ pc' = "extract"
                  /\ UNCHANGED previous_height
             ELSE /\ previous_height' = docHeight
                  /\ pc' = IF iterations < MaxScrolls THEN "scroll" ELSE "extract"
                  /\ UNCHANGED broke
          /\ UNCHANGED <<raising, fatal>>
       \/ /\ Raise("measure")            \* page.evaluate raises
          /\ UNCHANGED <<measurements, current_height, previous_height, broke>>
    /\ UNCHANGED <<max_items, sessionVars, gotoCalls, docHeight, iterations,
                   stableAfter, moved, sawTimeout, extractVars, results, outVars>>

\* line 112: results = extract_listings_from_page(page)
Extract ==
    /\ pc = "extract"
    /\ extractCalls' = extractCalls + 1
    /\ \E pg \in ScrapePages :
         IF ScanRaises(pg)
         THEN /\ Raise("extract")
              /\ UNCHANGED <<unique, results>>
         ELSE /\ unique' = extract_listings_from_page(pg)
              /\ results' = extract_listings_from_page(pg)
              /\ pc' = "close"
              /\ UNCHANGED <<raising, fatal>>
    /\ UNCHANGED <<max_items, sessionVars, gotoCalls, scrollVars, sawTimeout,
                   anchors, items, lookups, outVars>>

\* line 115: browser.close()
Close ==
    /\ pc = "close"
    /\ \/ /\ browser' = "closed"
          /\ releases' = releases + 1
          /\ pc' = "with_exit"
          /\ UNCHANGED <<raising, fatal>>
       \/ /\ Raise("close")
          /\ UNCHANGED <<browser, releases>>
    /\ UNCHANGED <<max_items, pw, pwStops, gotoCalls, scrollVars, sawTimeout,
                   extractVars, results, outVars>>

\* a scope that is torn down on the normal path only
ScopeExit_OnSuccessOnly ==
    /\ pc = "with_exit"
    /\ IF raising
       THEN UNCHANGED <<pw, pwStops, browser, releases>>
       ELSE /\ pw' = "stopped"
            /\ pwStops' = pwStops + 1
            /\ browser' = IF browser = "open" THEN "closed" ELSE browser
            /\ releases' = IF browser = "open" THEN releases + 1 ELSE releases
    /\ pc' = IF raising THEN "raised" ELSE "truncate"
    /\ UNCHANGED <<max_items, raising, fatal, gotoCalls, scrollVars, sawTimeout,
                   extractVars, results, outVars>>

\* line 86: leaving `with sync_playwright() as p`, by return or by exception;
\* stopping Playwright ends the browser it still has open
ScopeExit ==
    /\ pc = "with_exit"
    /\ pw' = "stopped"
    /\ pwStops' = pwStops + 1
    /\ browser' = IF browser = "open" THEN "closed" ELSE browser
    /\ releases' = IF browser = "open" THEN releases + 1 ELSE releases
    /\ pc' = IF raising THEN "raised" ELSE "truncate"
    /\ UNCHANGED <<max_items, raising, fatal, gotoCalls, scrollVars, sawTimeout,
                   extractVars, results, outVars>>

\* lines 116-118
TruncateResults ==
    /\ pc = "truncate"
    /\ results' = Truncate(results, max_items)
    /\ pc' = "save"
    /\ UNCHANGED <<max_items, sessionVars, raising, fatal, gotoCalls, scrollVars,
                   sawTimeout, extractVars, outVars>>

\* line 139 and lines 120-133: save_results(results, outpath)
Save ==
    /\ pc = "save"
    /\ \/ /\ written' = TRUE
          /\ outfile' = results
          /\ pc' = "done"
          /\ UNCHANGED <<raising, fatal>>
       \/ /\ raising' = TRUE             \* the file cannot be written
          /\ fatal' = "save"
          /\ pc' = "raised"
          /\ UNCHANGED outVars
    /\ UNCHANGED <<max_items, sessionVars, gotoCalls, scrollVars, sawTimeout,
                   extractVars, results>>

Next ==
    \/ Launch
    \/ Goto
    \/ WaitLoad
    \/ Scroll
    \/ WaitIdle
    \/ Measure
    \/ Extract
    \/ Close
    \/ ScopeExit
    \/ TruncateResults
    \/ Save

Spec == Init /\ [][Next]_vars

\* the program is sequential and every wait is bounded: it always takes its next step
FairSpec == Spec /\ WF_vars(Next)

(***************************************************************************)
(* extract_listings_from_page on its own.                                  *)
(***************************************************************************)
\* the state at the call in line 112, after a loop of one iteration on an empty document
InitExtract ==
    /\ pc = "x_scan"
    /\ max_items = DefaultMaxItems
    /\ pw = "running"
    /\ browser = "open"
    /\ releases = 0
    /\ pwStops = 0
    /\ raising = FALSE
    /\ fatal = "none"
    /\ gotoCalls = 1
    /\ docHeight = 0
    /\ previous_height = 0
    /\ current_height = 0
    /\ iterations = 1
    /\ measurements = 1
    /\ broke = TRUE
    /\ stableAfter = 0
    /\ moved = FALSE
    /\ sawTimeout = FALSE
    /\ extractCalls = 1
    /\ anchors \in Pages
    /\ items = <<>>
    /\ lookups = <<>>
    /\ unique = <<>>
    /\ results = <<>>
    /\ written = FALSE
    /\ outfile = <<>>

frameVars == <<max_items, sessionVars, gotoCalls, scrollVars, sawTimeout, extractCalls,
               anchors, outVars>>

\* lines 41-73: the loop over the anchors
ScanAnchors ==
    /\ pc = "x_scan"
    /\ IF ScanRaises(anchors)
       THEN /\ raising' = TRUE
            /\ fatal' = "extract"
            /\ pc' = "x_raised"
            /\ UNCHANGED <<items, lookups>>
       ELSE /\ items' = BuildItems(anchors)
            /\ lookups' = BuildLookups(anchors)
            /\ pc' = "x_dedup"
            /\ UNCHANGED <<raising, fatal>>
    /\ UNCHANGED <<frameVars, unique, results>>

\* lines 75-81
DedupItems ==
    /\ pc = "x_dedup"
    /\ unique' = Unique(items)
    /\ pc' = "x_return"
    /\ UNCHANGED <<frameVars, raising, fatal, items, lookups, results>>

\* line 82, and the assignment of line 112
ReturnUnique ==
    /\ pc = "x_return"
    /\ results' = unique
    /\ pc' = "x_done"
    /\ UNCHANGED <<frameVars, raising, fatal, items, lookups, unique>>

NextExtract ==
    \/ ScanAnchors
    \/ DedupItems
    \/ ReturnUnique

SpecExtract == InitExtract /\ [][NextExtract]_vars


(***************************************************************************)
(* Properties of extract_listings_from_page, checked under SpecExtract.    *)
(***************************************************************************)
Deduped == pc \in {"x_return", "x_done"}

\* the index in items of the first item with href h
FirstIndex(h) ==
    CHOOSE k \in 1..Len(items) :
        /\ items[k].href = h
        /\ \A m \in 1..(k - 1) : items[m].href # h

\* C1: once the duplicates are removed, the output holds every href of the
\* candidate list exactly once, the record kept for an href is the one built
\* from its first occurrence, and the records stand in order of first appearance.
C1_DedupFirstWins ==
    Deduped =>
        /\ \A i, j \in 1..Len(unique) : i # j => unique[i].href # unique[j].href
        /\ \A k \in 1..Len(items) : \E j \in 1..Len(unique) : unique[j].href = items[k].href
        /\ \A j \in 1..Len(unique) :
              /\ \E k \in 1..Len(items) : items[k].href = unique[j].href
              /\ unique[j] = items[FirstIndex(unique[j].href)]
        /\ \A i, j \in 1..Len(unique) :
              i < j => FirstIndex(unique[i].href) < FirstIndex(unique[j].href)

\* a page with a repeated href whose later record differs from the first, and
\* another href in between
C1_Witness ==
    /\ pc = "x_done"
    /\ Len(unique) >= 2
    /\ \E k, m, n \in 1..Len(items) :
          /\ k < m /\ m < n
          /\ items[k].href = items[n].href
          /\ items[k] # items[n]
          /\ items[m].href # items[k].href

\* the three anchors of the example, whatever elements surround them
IsScenario(as) ==
    /\ Len(as) = 3
    /\ as[1].href = hItem123 /\ as[1].text = tCarCover500
    /\ as[2].href = hItem123
    /\ as[3].href = hOther999 /\ ~Contains(as[3].text, <<RUPEE>>)
    /\ \A k \in 1..3 : ~as[k].broken

\* C7 as stated: the example page yields 2 records, the second for "/other/999".
C7_TwoRecords ==
    (pc = "x_done" /\ IsScenario(anchors) /\ anchors[1] = aItem) =>
        /\ Len(unique) = 2
        /\ unique[1] = [title |-> tCarCover, href |-> hItem123,
                        price |-> tRupee500, location |-> None]
        /\ unique[2].href = hOther999
        /\ unique[2].title = FirstLine(Strip(anchors[3].text))
        /\ unique[2].price = None

\* C7, amended: the example page yields exactly 1 record, for "/item/123", with
\* title "Car Cover", the price of the span inside the first anchor (None when
\* the anchor holds no such span) and location None; "/other/999" yields none.
C7_OneRecord ==
    (pc = "x_done" /\ IsScenario(anchors)) =>
        /\ Len(unique) = 1
        /\ unique[1].title = tCarCover
        /\ unique[1].href = hItem123
        /\ unique[1].price = IF anchors[1].kids = <<>> THEN None ELSE tRupee500
        /\ unique[1].location = None

C7_Witness ==
    /\ pc = "x_done"
    /\ anchors = <<aItem, aItemDup, aOther>>
    /\ Len(unique) = 1

\* the anchors whose lookups both fail, as positions in the qualifying anchors
BothFail(k) ==
    /\ \/ Qualifying(anchors)[k].priceRaises
       \/ PriceEl(Qualifying(anchors)[k]) = NoEl
    /\ \/ Qualifying(anchors)[k].locRaises
       \/ ~Qualifying(anchors)[k].hasParent
       \/ LocationEl(Qualifying(anchors)[k]) = NoEl

\* C8 as stated: every qualifying anchor whose lookups both fail is in the
\* output with price None and location None.
C8_AlwaysInOutput ==
    pc = "x_done" =>
        \A k \in 1..Len(items) :
            BothFail(k) =>
                \E j \in 1..Len(unique) :
                    /\ unique[j].href = items[k].href
                    /\ unique[j].price = None
                    /\ unique[j].location = None

\* C8, amended: a qualifying anchor whose lookups both fail gives a candidate
\* with price None and location None, which is in the output unless an earlier
\* anchor has the same href; a failing price lookup never keeps the location
\* lookup from being attempted, and no lookup failure stops the loop: every
\* qualifying anchor gets its candidate.
C8_FailureIsolation ==
    pc \in {"x_dedup", "x_return", "x_done"} =>
        /\ Len(items) = Len(Qualifying(anchors))
        /\ Len(lookups) = Len(items)
        /\ ~raising
        /\ \A k \in 1..Len(items) :
              /\ items[k].href = HrefOf(Qualifying(anchors)[k])
              /\ lookups[k].location # "skipped"
              /\ Qualifying(anchors)[k].priceRaises =>
                    (lookups[k].price = "raised" /\ items[k].price = None)
              /\ Qualifying(anchors)[k].locRaises =>
                    (lookups[k].location = "raised" /\ items[k].location = None)
              /\ BothFail(k) =>
                    /\ items[k].price = None
                    /\ items[k].location = None
                    /\ pc = "x_done" /\ (\A m \in 1..(k - 1) : items[m].href # items[k].href)
                          => \E j \in 1..Len(unique) : unique[j] = items[k]

\* both lookups raise on the first anchor, the next anchor is still processed
C8_Witness ==
    /\ pc = "x_done"
    /\ Len(anchors) >= 2
    /\ anchors[1] = aBothRaise
    /\ anchors[2] = aPriceRaises
    /\ Len(items) = 2
    /\ unique = <<[title |-> tMat, href |-> hI7, price |-> None, location |-> None]>>
    /\ lookups[2] = [price |-> "raised", location |-> "found"]

\* C9: no record of the candidate list or of the output has an empty or
\* missing href.
C9_HrefNeverEmpty ==
    /\ \A k \in 1..Len(items) : items[k].href # <<>> /\ items[k].href # None
    /\ \A j \in 1..Len(unique) : unique[j].href # <<>> /\ unique[j].href # None
    /\ \A j \in 1..Len(results) : results[j].href # <<>> /\ results[j].href # None

\* a page with an empty href and a missing href, both with text, beside an item
C9_Witness ==
    /\ pc = "x_done"
    /\ \E k \in 1..Len(anchors) : anchors[k].href = <<>> /\ anchors[k].text # <<>>
    /\ \E k \in 1..Len(anchors) : anchors[k].href = None /\ anchors[k].text # <<>>
    /\ Len(results) = 1

(***************************************************************************)
(* Properties of scrape and main, checked under Spec and FairSpec.         *)
(***************************************************************************)
\* scrape has returned its list
Returned == pc \in {"save", "done"} \/ (pc = "raised" /\ fatal = "save")

LoopEnded == pc = "extract" \/ extractCalls >= 1

\* the page's height changed at each of the first k scrolls, not at scroll k+1,
\* and not again as far as the run saw it
StabilizedAfter(k) == stableAfter = k /\ ~moved

InLoop == pc \in {"scroll", "wait_idle", "measure"}

\* C4: once scrape is left, by return or by exception, the Playwright scope
\* has been exited exactly once and a browser session that was opened has
\* been released exactly once.
C4_ReleasedOnce ==
    /\ releases <= 1
    /\ pwStops <= 1
    /\ pc \in {"truncate", "save", "done", "raised"} =>
          /\ pw = "stopped"
          /\ pwStops = 1
          /\ browser # "open"
          /\ releases = (IF browser = "closed" THEN 1 ELSE 0)
          /\ fatal \notin {"none", "launch", "save"} => browser = "closed"
          /\ fatal \in {"none", "save"} => browser = "closed"

\* an error raised by the extraction, the session released on the way out
C4_Witness ==
    /\ pc = "raised"
    /\ fatal = "extract"
    /\ browser = "closed"
    /\ releases = 1
    /\ pwStops = 1

\* C5: only an error the code has no handler for stops a run; otherwise the
\* run ends with the extraction done once and the output file written with
\* the results.
C5_Completes ==
    /\ [](raising => fatal # "none")
    /\ <>(fatal # "none"
          \/ (pc = "done" /\ written /\ extractCalls = 1 /\ outfile = results))

\* a run with a timed-out wait and a record whose lookups both failed, written out
C5_Witness ==
    /\ pc = "done"
    /\ written
    /\ fatal = "none"
    /\ sawTimeout
    /\ \E j \in 1..Len(outfile) : outfile[j].price = None /\ outfile[j].location = None

\* C6: when page.goto fails it was called once, the error is on its way out of
\* scrape and main, and no scroll, measurement, extraction or file write happens.
C6_GotoFatal ==
    /\ gotoCalls <= 1
    /\ fatal = "goto" =>
          /\ gotoCalls = 1
          /\ raising
          /\ pc \in {"with_exit", "raised"}
          /\ iterations = 0
          /\ measurements = 0
          /\ extractCalls = 0
          /\ ~written

C6_Witness ==
    /\ pc = "raised"
    /\ fatal = "goto"
    /\ gotoCalls = 1
    /\ pw = "stopped"

\* C10: the loop runs at least 1 and at most 10 scroll-and-measure iterations,
\* it runs only after the one successful goto, and the extraction runs at most
\* once and only after the loop has ended.
C10_BoundedOrdered ==
    /\ measurements <= iterations
    /\ iterations <= 10
    /\ extractCalls <= 1
    /\ iterations >= 1 => (gotoCalls = 1 /\ fatal # "goto")
    /\ InLoop => extractCalls = 0
    /\ LoopEnded =>
          /\ ~InLoop
          /\ measurements >= 1
          /\ measurements <= 10
          /\ iterations = measurements
          /\ broke \/ measurements = 10

\* a height that changed at every measurement: 10 iterations, then the extraction
C10_Witness ==
    /\ extractCalls = 1
    /\ measurements = 10
    /\ ~broke
    /\ stableAfter = NoK
    /\ sawTimeout

====
